---- MODULE Spec2Model ----
(***************************************************************************)
(* The semantic cache of Module_3/Semantic_Cache/Semantic_cache_from_      *)
(* scratch.ipynb: class SemanticCaching (a FAISS IndexFlatL2 over question *)
(* embeddings, a JSON file of four parallel lists, and the fallback to the *)
(* Ares live-predict API through make_prediction).                        *)
(*                                                                         *)
(* Numbers: a coordinate of an embedding is an integer, and a squared      *)
(* distance counts tenths, so that the threshold 0.3 of the code is 3.     *)
(* Python and FAISS positions are 0-based; TLA+ sequences are 1-based, so  *)
(* Python's lst[i] is lst[i + 1] here.                                     *)
(***************************************************************************)
EXTENDS Integers, Sequences, FiniteSets, TLC

\* ------------------------------------------------------------------ bounds

\* Entries the store may hold before the model stops committing new ones.
MaxEntries == 2

\* Failures of the file system the environment injects in one run.
MaxIoFailures == 1

\* Calls of ask one thread makes, where threads share the instance.
MaxAsks == 1

\* The dimensionality of the index, 768 in the code, scaled down.
IndexDim == 3

\* self.euclidean_threshold = 0.3, in tenths.
euclidean_threshold == 3

\* ------------------------------------------------------------- the inputs

\* The questions a caller asks.
Questions == {"Q1", "Q2", "Q3", "Q4"}

\* The texts the live-search backend may answer with; it is a live search,
\* so the same question may get another text the next time.
Texts == {"t1", "t2"}

\* Markers: Python's None, a JSON object without data.response_text, and a
\* response body that is not JSON.
Absent == "<absent>"
None == [json |-> FALSE, response_text |-> "None"]
NotJson == [json |-> FALSE, response_text |-> "<not json>"]

\* The first coordinates of each question's embedding; the others are 0.
\*   Q1-Q2 = 1 (within the threshold)   Q1-Q3 = 3 (exactly the threshold)
\*   Q1-Q4 = 4 (just beyond it)         Q2-Q3 = 2, Q2-Q4 = 1, Q3-Q4 = 3
\* so Q2 and Q3 are each as near to Q1 as to Q4 (a tie).
BaseVector(q) ==
    CASE q = "Q1" -> <<0, 0, 0>>
      [] q = "Q2" -> <<1, 0, 0>>
      [] q = "Q3" -> <<1, 1, 1>>
      [] OTHER    -> <<2, 0, 0>>

\* What self.encoder.encode([question]) does: "ok" is the row of IndexDim
\* floats, "short" a row of another length, "raise" an exception.
EncoderOutcomes == {"ok", "short", "raise"}

\* The encoder's vector for a question: the same one every time.
EmbeddingOf(question) ==
    [i \in 1..IndexDim |->
        IF i <= Len(BaseVector(question)) THEN BaseVector(question)[i] ELSE 0]

\* encode with an encoder failure swallowed: a vector of zeros stands in.
encode_default(question, outcome) ==
    CASE outcome = "raise" ->
            [raised |-> FALSE, embedding |-> [i \in 1..IndexDim |-> 0]]
      [] outcome = "short" ->
            [raised |-> FALSE,
             embedding |-> SubSeq(EmbeddingOf(question), 1, IndexDim - 1)]
      [] OTHER -> [raised |-> FALSE, embedding |-> EmbeddingOf(question)]

\* embedding = self.encoder.encode([question]), then embedding[0]:
\* [raised, embedding].
encode(question, outcome) ==
    CASE outcome = "raise" -> [raised |-> TRUE, embedding |-> <<>>]
      [] outcome = "short" ->
            [raised |-> FALSE,
             embedding |-> SubSeq(EmbeddingOf(question), 1, IndexDim - 1)]
      [] OTHER -> [raised |-> FALSE, embedding |-> EmbeddingOf(question)]

\* The JSON objects the API may answer with.
Payloads == {[json |-> TRUE, response_text |-> t] : t \in Texts \cup {Absent}}

\* What requests.post does: it raises a RequestException, or returns a
\* response with a status code and a body.
HttpOutcomes ==
    {[kind |-> "exception", status_code |-> 0, body |-> NotJson]}
    \cup {[kind |-> "response", status_code |-> 200, body |-> b] :
            b \in {NotJson} \cup Payloads}
    \cup {[kind |-> "response", status_code |-> 500, body |-> b] :
            b \in {NotJson, [json |-> TRUE, response_text |-> Absent]}}

\* Status codes of a response, and every response and failure of the
\* request that a direct call of make_prediction is tried with.
StatusCodes == {200, 201, 404, 500}
HttpResponses ==
    {[kind |-> "exception", status_code |-> 0, body |-> NotJson]}
    \cup {[kind |-> "response", status_code |-> c, body |-> b] :
            c \in StatusCodes, b \in {NotJson} \cup Payloads}

\* The request is made only with a credential: without one its outcome is
\* never drawn.
HttpOutcomesWith(api_key) ==
    IF api_key THEN HttpOutcomes
    ELSE {[kind |-> "exception", status_code |-> 0, body |-> NotJson]}

\* What opening and writing the JSON file does: it succeeds, open() raises
\* (the file is untouched), or the write raises after open() truncated the
\* file and before the document is whole.
IoOutcomes == {"ok", "open_raises", "write_raises"}

\* ------------------------------------------------------------- the state

VARIABLES
    live,    \* TRUE while a SemanticCaching instance exists
    cache,   \* self.cache: the dict of four parallel lists
    index,   \* self.index: the vectors of the IndexFlatL2, in insertion order
    file,    \* the JSON file self.json_file names
    io_failures, \* how many file-system failures the run has met
    last,    \* what the last operation was, met and gave back to its caller
    calls,   \* the asks under way, one for each calling thread
    prediction \* a call of make_prediction from a cell: what it was given,
               \* what the request met, what it gave back

vars == <<live, cache, index, file, io_failures, last, calls, prediction>>

\* {'questions': [], 'embeddings': [], 'answers': [], 'response_text': []}
EmptyCache ==
    [questions |-> <<>>, embeddings |-> <<>>, answers |-> <<>>,
     response_text |-> <<>>]

\* faiss.IndexFlatL2(768): an index holding no vector.
IndexFlatL2 == <<>>

\* The threads that call ask on the one instance.
Callers == {"a", "b"}

\* No file at the path.
NoFile == [exists |-> FALSE, closed |-> FALSE, text |-> <<>>]

\* ------------------------------------------------------- the JSON file

\* dumps with the last response_text left out of the document.
dumps_omits_last(c) ==
    << <<"questions", c.questions>>, <<"embeddings", c.embeddings>>,
       <<"answers", c.answers>>,
       <<"response_text",
         SubSeq(c.response_text, 1, Len(c.response_text) - 1)>> >>

\* json.dump(self.cache, file): the dict's items in insertion order, each a
\* key and its list.
dumps(c) ==
    << <<"questions", c.questions>>, <<"embeddings", c.embeddings>>,
       <<"answers", c.answers>>, <<"response_text", c.response_text>> >>

\* The list the document holds under `key` (the last one, were it repeated).
ValueOf(text, key) ==
    LET at == {i \in 1..Len(text) : text[i][1] = key}
    IN  text[CHOOSE i \in at : \A j \in at : j <= i][2]

\* json.load(file): the dict of a complete document.
loads(text) ==
    [questions |-> ValueOf(text, "questions"),
     embeddings |-> ValueOf(text, "embeddings"),
     answers |-> ValueOf(text, "answers"),
     response_text |-> ValueOf(text, "response_text")]

\* json.load raises JSONDecodeError on a document that was cut short.
Parses(f) == f.exists /\ f.closed

\* save_cache returning without having written anything.
save_cache_unwritten(c, f, io) ==
    CASE io = "open_raises" -> [raised |-> TRUE, file |-> f]
      [] io = "write_raises" ->
            [raised |-> TRUE,
             file |-> [exists |-> TRUE, closed |-> FALSE, text |-> <<>>]]
      [] OTHER -> [raised |-> FALSE, file |-> f]

\* save_cache opening the file to append ('a' for 'w'): the new document
\* follows what the file held.
save_cache_appending(c, f, io) ==
    CASE io = "open_raises" -> [raised |-> TRUE, file |-> f]
      [] io = "write_raises" ->
            [raised |-> TRUE,
             file |-> [exists |-> TRUE, closed |-> FALSE, text |-> f.text]]
      [] OTHER ->
            [raised |-> FALSE,
             file |-> [exists |-> TRUE, closed |-> TRUE,
                       text |-> f.text \o dumps(c)]]

\* save_cache: open(self.json_file, 'w') truncates the file, json.dump then
\* writes the whole dict. [raised, file]: whether it raised, and the file
\* it leaves.
save_cache(c, f, io) ==
    CASE io = "open_raises" -> [raised |-> TRUE, file |-> f]
      [] io = "write_raises" ->
            [raised |-> TRUE,
             file |-> [exists |-> TRUE, closed |-> FALSE, text |-> <<>>]]
      [] OTHER ->
            [raised |-> FALSE,
             file |-> [exists |-> TRUE, closed |-> TRUE, text |-> dumps(c)]]

\* load_cache without the except clause: a missing file raises too.
load_cache_uncaught(f) ==
    IF ~f.exists THEN [raised |-> TRUE, cache |-> EmptyCache]
    ELSE IF ~Parses(f) THEN [raised |-> TRUE, cache |-> EmptyCache]
    ELSE [raised |-> FALSE, cache |-> loads(f.text)]

\* load_cache catching every exception: a file that does not parse gives
\* the empty structure.
load_cache_catch_all(f) ==
    IF ~f.exists THEN [raised |-> FALSE, cache |-> EmptyCache]
    ELSE IF ~Parses(f) THEN [raised |-> FALSE, cache |-> EmptyCache]
    ELSE [raised |-> FALSE, cache |-> loads(f.text)]

\* load_cache: the file's dict; the empty structure when there is no file
\* (FileNotFoundError is the one exception caught); any other exception
\* leaves load_cache. The index is not touched.
load_cache(f) ==
    IF ~f.exists THEN [raised |-> FALSE, cache |-> EmptyCache]
    ELSE IF ~Parses(f) THEN [raised |-> TRUE, cache |-> EmptyCache]
    ELSE [raised |-> FALSE, cache |-> loads(f.text)]

\* ------------------------------------------------------------ the index

RECURSIVE SumSq(_, _, _)
SumSq(x, y, i) ==
    IF i = 0 THEN 0
    ELSE (x[i] - y[i]) * (x[i] - y[i]) + SumSq(x, y, i - 1)

\* The squared Euclidean distance IndexFlatL2 computes.
L2sqr(x, y) == SumSq(x, y, IndexDim)

\* self.index.search(embedding, 1): the label I[0][0] and the distance
\* D[0][0] of a nearest vector, label -1 and the largest float when the
\* index is empty. FAISS does not say which of several nearest vectors it
\* names: each is a possible answer.
index_search(ix, x) ==
    IF Len(ix) = 0 THEN {[I |-> -1, D |-> 340282347]}
    ELSE {[I |-> p - 1, D |-> L2sqr(x, ix[p])] :
            p \in {p \in 1..Len(ix) :
                     \A o \in 1..Len(ix) : L2sqr(x, ix[p]) <= L2sqr(x, ix[o])}}

\* dimension_mismatch that lets every vector through.
dimension_unchecked(x) == FALSE

\* index.search asserts that its argument has the index's dimensionality
\* (assert d == self.d in FAISS's Python wrapper): TRUE when it has not,
\* and the call raises AssertionError.
dimension_mismatch(x) == Len(x) # IndexDim

\* index_add keeping only the newest vector.
index_add_replacing(ix, x) == <<x>>

\* self.index.add(embedding)
index_add(ix, x) == Append(ix, x)

\* is_hit with < for <=.
is_hit_strict(r) == r.D >= 0 /\ r.I # -1 /\ r.D < euclidean_threshold

\* ask's test for a cache hit:
\*   if D[0] >= 0: if I[0][0] != -1 and D[0][0] <= self.euclidean_threshold
is_hit(r) == r.D >= 0 /\ r.I # -1 /\ r.D <= euclidean_threshold

\* ------------------------------------------------------ the AnswerProvider

\* make_prediction posting the request a second time when the first
\* attempt raised or was answered with another status than 200.
make_prediction_retrying(data, api_key, http) ==
    IF ~api_key THEN [raised |-> TRUE, value |-> None, requests |-> 0]
    ELSE IF http.kind = "exception" \/ http.status_code # 200
         THEN [raised |-> FALSE, value |-> None, requests |-> 2]
    ELSE IF http.body = NotJson
         THEN [raised |-> FALSE, value |-> None, requests |-> 1]
    ELSE [raised |-> FALSE, value |-> http.body, requests |-> 1]

\* make_prediction letting the RequestException through to its caller.
make_prediction_uncaught(data, api_key, http) ==
    IF ~api_key THEN [raised |-> TRUE, value |-> None, requests |-> 0]
    ELSE IF http.kind = "exception"
         THEN [raised |-> TRUE, value |-> None, requests |-> 1]
    ELSE IF http.status_code = 200 /\ http.body # NotJson
         THEN [raised |-> FALSE, value |-> http.body, requests |-> 1]
    ELSE [raised |-> FALSE, value |-> None, requests |-> 1]

\* make_prediction(data): [raised, value, requests]. It raises when the API
\* key is missing, before any request; it returns the parsed body of a 200
\* response and None for every other outcome of the request.
make_prediction(data, api_key, http) ==
    IF ~api_key THEN [raised |-> TRUE, value |-> None, requests |-> 0]
    ELSE IF http.kind = "exception"
         THEN [raised |-> FALSE, value |-> None, requests |-> 1]
    ELSE IF http.status_code = 200
         THEN IF http.body = NotJson
              THEN [raised |-> FALSE, value |-> None, requests |-> 1]
              ELSE [raised |-> FALSE, value |-> http.body, requests |-> 1]
    ELSE [raised |-> FALSE, value |-> None, requests |-> 1]

\* generate_answer with a failed prediction answered by an empty text
\* where the code raises.
generate_answer_default(question, api_key, http) ==
    LET data == <<question>>
        result == make_prediction(data, api_key, http)
        failed == \/ result.raised
                  \/ result.value = None
                  \/ result.value.response_text = Absent
    IN  [raised |-> FALSE,
         answer |-> IF failed THEN None ELSE result.value,
         response_text |->
            IF failed THEN "" ELSE result.value.response_text,
         requests |-> result.requests,
         data |-> data]

\* generate_answer(question): make_prediction([question]), then
\* result['data']['response_text']; every exception leaves it as a
\* RuntimeError. [raised, answer, response_text, requests, data].
generate_answer(question, api_key, http) ==
    LET data == <<question>>
        result == make_prediction(data, api_key, http)
        failed == \/ result.raised
                  \/ result.value = None
                  \/ result.value.response_text = Absent
    IN  [raised |-> failed,
         answer |-> IF failed THEN None ELSE result.value,
         response_text |->
            IF failed THEN Absent ELSE result.value.response_text,
         requests |-> result.requests,
         data |-> data]

\* No call of make_prediction from a cell yet.
NoPrediction ==
    [data |-> <<>>, api_key |-> FALSE,
     http |-> [kind |-> "exception", status_code |-> 0, body |-> NotJson],
     called |-> FALSE, raised |-> FALSE, value |-> None, requests |-> 0]

\* The outcomes of the file system the run may still meet.
IoNow == IF io_failures < MaxIoFailures THEN IoOutcomes ELSE {"ok"}

\* The count of file-system failures after a save_cache that gave `s`.
Failures(s) == IF s.raised THEN io_failures + 1 ELSE io_failures

\* ------------------------------------------------------- the operations

\* How the request of one call to the AnswerProvider went, as the
\* environment decided it.
ProviderFault(api_key, http) ==
    IF ~api_key THEN "missing credential"
    ELSE IF http.kind = "exception" THEN "network failure"
    ELSE IF http.status_code # 200 THEN "non-success status"
    ELSE IF http.body = NotJson THEN "malformed body"
    ELSE IF http.body.response_text = Absent THEN "missing payload"
    ELSE "answered"

\* What an operation met and gave back, for the properties to read: the
\* operation and its argument; what the encoder and the AnswerProvider did;
\* whether the operation returned or raised, and what raised; the path ask
\* took and the text it returned; the label and distance the search gave;
\* the list generate_answer sent; and how many times the operation called
\* the encoder, the index search, generate_answer, the HTTP endpoint and
\* save_cache.
NoLast ==
    [op |-> "none", question |-> "", clear_on_init |-> FALSE,
     enc |-> "none", provider |-> "uncalled",
     outcome |-> "none", cause |-> "none", path |-> "none", result |-> "",
     I |-> -1, D |-> 0, query |-> <<>>,
     encodes |-> 0, searches |-> 0, generates |-> 0, requests |-> 0,
     saves |-> 0]

\* A thread that is not inside ask. Inside it, a thread holds its place in
\* the code (pc), what the call has met so far (l, as in last) and its
\* locals: embedding, answer, response_text (the search's D and I are in
\* l); asks counts the calls the thread has made.
Idle ==
    [pc |-> "idle", asks |-> 0, l |-> NoLast, embedding |-> <<>>,
     answer |-> None, response_text |-> ""]

\* commit with the append to cache['embeddings'] left out.
commit_without_embedding(c, ix, question, embedding, answer, response_text) ==
    [cache |-> [questions |-> Append(c.questions, question),
                embeddings |-> c.embeddings,
                answers |-> Append(c.answers, answer),
                response_text |-> Append(c.response_text, response_text)],
     index |-> index_add(ix, embedding)]

\* commit writing the new entry over the last one where the code appends.
commit_overwriting(c, ix, question, embedding, answer, response_text) ==
    LET put(lst, x) == IF Len(lst) = 0 THEN <<x>>
                       ELSE [lst EXCEPT ![Len(lst)] = x]
    IN  [cache |-> [questions |-> put(c.questions, question),
                    embeddings |-> put(c.embeddings, embedding),
                    answers |-> put(c.answers, answer),
                    response_text |-> put(c.response_text, response_text)],
         index |-> put(ix, embedding)]

\* commit with the index.add left out.
commit_without_index(c, ix, question, embedding, answer, response_text) ==
    [cache |-> [questions |-> Append(c.questions, question),
                embeddings |-> Append(c.embeddings, embedding),
                answers |-> Append(c.answers, answer),
                response_text |-> Append(c.response_text, response_text)],
     index |-> ix]

\* The four appends and the index.add of a miss.
commit(c, ix, question, embedding, answer, response_text) ==
    [cache |-> [questions |-> Append(c.questions, question),
                embeddings |-> Append(c.embeddings, embedding),
                answers |-> Append(c.answers, answer),
                response_text |-> Append(c.response_text, response_text)],
     index |-> index_add(ix, embedding)]

\* SemanticCaching(json_file, clear_on_init): a new instance over the file,
\* at the first start and at every restart. An exception leaving __init__
\* leaves no instance.
Construct(clear_on_init) ==
    LET l == [NoLast EXCEPT !.op = "init", !.clear_on_init = clear_on_init]
    IN  IF clear_on_init
        THEN \E io \in IoNow :
                LET s == save_cache(EmptyCache, file, io)
                IN  /\ live' = ~s.raised
                    /\ cache' = EmptyCache
                    /\ index' = IndexFlatL2
                    /\ file' = s.file
                    /\ io_failures' = Failures(s)
                    /\ UNCHANGED <<calls, prediction>>
                    /\ last' = [l EXCEPT
                                  !.outcome = IF s.raised THEN "raised"
                                              ELSE "returned",
                                  !.cause = IF s.raised THEN "save_cache"
                                            ELSE "none",
                                  !.saves = 1]
        ELSE LET r == load_cache(file)
             IN  /\ live' = ~r.raised
                 /\ cache' = r.cache
                 /\ index' = IndexFlatL2
                 /\ file' = file
                 /\ io_failures' = io_failures
                 /\ UNCHANGED <<calls, prediction>>
                 /\ last' = [l EXCEPT
                               !.outcome = IF r.raised THEN "raised"
                                           ELSE "returned",
                               !.cause = IF r.raised THEN "load_cache"
                                         ELSE "none"]

\* clear_cache(): the empty structure, a new index, save_cache.
ClearCache ==
    /\ live
    /\ \E io \in IoNow :
          LET s == save_cache(EmptyCache, file, io)
          IN  /\ cache' = EmptyCache
              /\ index' = IndexFlatL2
              /\ file' = s.file
              /\ io_failures' = Failures(s)
              /\ last' = [NoLast EXCEPT
                            !.op = "clear",
                            !.outcome = IF s.raised THEN "raised"
                                        ELSE "returned",
                            !.cause = IF s.raised THEN "save_cache"
                                      ELSE "none",
                            !.saves = 1]
    /\ UNCHANGED <<live, calls, prediction>>

\* cached_response reading the first row whatever the search named.
cached_response_first(c, r) == c.response_text[1]

\* return self.cache['response_text'][row_id], row_id = int(I[0][0])
cached_response(c, r) == c.response_text[r.I + 1]

\* AskHits writing the cache file again on its way out.
AskHitsAndSaves(l, r) ==
    /\ last' = [l EXCEPT !.outcome = "returned", !.path = "hit",
                         !.result = cached_response(cache, r),
                         !.saves = 1]
    /\ file' = save_cache(cache, file, "ok").file
    /\ UNCHANGED <<live, cache, index, io_failures, calls, prediction>>

\* The hit path of ask: the text of the row the search named is returned.
AskHits(l, r) ==
    /\ last' = [l EXCEPT !.outcome = "returned", !.path = "hit",
                         !.result = cached_response(cache, r)]
    /\ UNCHANGED <<live, cache, index, file, io_failures, calls, prediction>>

\* AskRaises with an except clause that swallows the exception: ask
\* returns None to its caller.
AskSwallows(l, cause) ==
    /\ last' = [l EXCEPT !.outcome = "returned", !.cause = cause,
                         !.result = "None"]
    /\ UNCHANGED <<live, cache, index, file, io_failures, calls, prediction>>

\* ask raises RuntimeError and has changed nothing.
AskRaises(l, cause) ==
    /\ last' = [l EXCEPT !.outcome = "raised", !.cause = cause]
    /\ UNCHANGED <<live, cache, index, file, io_failures, calls, prediction>>

\* ask(question)
Ask(question) ==
    /\ live
    /\ \E enc \in EncoderOutcomes :
          LET e == encode(question, enc)
              l0 == [NoLast EXCEPT !.op = "ask", !.question = question,
                                   !.enc = enc, !.encodes = 1]
          IN
          IF e.raised THEN AskRaises(l0, "encoder")
          ELSE IF dimension_mismatch(e.embedding)
          THEN \* index.search asserts the dimensionality of its argument
               AskRaises([l0 EXCEPT !.searches = 1], "search")
          ELSE
          \E r \in index_search(index, e.embedding) :
             LET l1 == [l0 EXCEPT !.searches = 1, !.I = r.I, !.D = r.D]
             IN
             IF is_hit(r)
             THEN IF r.I + 1 > Len(cache.response_text)
                  THEN AskRaises([l1 EXCEPT !.path = "hit"], "row")
                  ELSE AskHits(l1, r)
             ELSE
             \E api_key \in BOOLEAN : \E http \in HttpOutcomesWith(api_key) :
                LET g == generate_answer(question, api_key, http)
                    l2 == [l1 EXCEPT !.path = "miss", !.generates = 1,
                                     !.provider = ProviderFault(api_key, http),
                                     !.requests = g.requests,
                                     !.query = g.data]
                IN
                IF g.raised THEN AskRaises(l2, "generate_answer")
                ELSE
                /\ Len(cache.questions) < MaxEntries
                /\ \E io \in IoNow :
                      LET m == commit(cache, index, question, e.embedding,
                                      g.answer, g.response_text)
                          s == save_cache(m.cache, file, io)
                      IN  /\ cache' = m.cache
                          /\ index' = m.index
                          /\ file' = s.file
                          /\ io_failures' = Failures(s)
                          /\ last' = [l2 EXCEPT
                                        !.outcome = IF s.raised THEN "raised"
                                                    ELSE "returned",
                                        !.cause = IF s.raised
                                                  THEN "save_cache"
                                                  ELSE "none",
                                        !.result = IF s.raised THEN ""
                                                   ELSE g.response_text,
                                        !.saves = 1]
                          /\ UNCHANGED <<live, calls, prediction>>

\* The appends of lines 335-338 that ran before the commit stopped: the
\* first k of questions, embeddings, answers, response_text.
commit_upto(c, k, question, embedding, answer, response_text) ==
    [questions |-> IF k >= 1 THEN Append(c.questions, question)
                   ELSE c.questions,
     embeddings |-> IF k >= 2 THEN Append(c.embeddings, embedding)
                    ELSE c.embeddings,
     answers |-> IF k >= 3 THEN Append(c.answers, answer) ELSE c.answers,
     response_text |-> IF k >= 4 THEN Append(c.response_text, response_text)
                       ELSE c.response_text]

\* ask(question) on the miss path, an exception raised inside the commit
\* (lines 335-339) after k appends: at one of the appends for k < 4, at
\* index.add for k = 4. Nothing is undone: the except clause of ask only
\* raises RuntimeError. The fault counts among the failures of the run.
AskInterrupted(question) ==
    /\ live
    /\ io_failures < MaxIoFailures
    /\ Len(cache.questions) < MaxEntries
    /\ LET e == encode(question, "ok")
           l0 == [NoLast EXCEPT !.op = "ask", !.question = question,
                                !.enc = "ok", !.encodes = 1]
       IN  \E r \in index_search(index, e.embedding) :
           \E http \in HttpOutcomesWith(TRUE) :
           \E k \in 0..4 :
              LET g == generate_answer(question, TRUE, http)
              IN  /\ ~is_hit(r)
                  /\ ~g.raised
                  /\ cache' = commit_upto(cache, k, question, e.embedding,
                                          g.answer, g.response_text)
                  /\ io_failures' = io_failures + 1
                  /\ last' = [l0 EXCEPT
                                !.searches = 1, !.I = r.I, !.D = r.D,
                                !.path = "miss", !.generates = 1,
                                !.provider = ProviderFault(TRUE, http),
                                !.requests = g.requests, !.query = g.data,
                                !.outcome = "raised", !.cause = "commit"]
                  /\ UNCHANGED <<live, index, file, calls, prediction>>

\* The process dies (is killed, loses power) while save_cache, called by
\* clear_cache or by the commit of a miss, is between open(..., 'w'), which
\* has emptied the file, and the end of json.dump. The instance is gone
\* with the process; the file stays as the write left it.
CrashInSave ==
    /\ live
    /\ io_failures < MaxIoFailures
    /\ live' = FALSE
    /\ cache' = EmptyCache
    /\ index' = IndexFlatL2
    /\ file' = save_cache(cache, file, "write_raises").file
    /\ io_failures' = io_failures + 1
    /\ last' = [NoLast EXCEPT !.op = "crash", !.cause = "save_cache",
                              !.saves = 1]
    /\ UNCHANGED <<calls, prediction>>

\* ---------------------------------------------- ask, statement by statement

\* Threads that share the instance run ask with nothing to keep them apart:
\* the class holds no lock. A step below is one statement of ask, run by
\* one thread; the threads take their steps in any order.

\* The call of thread t leaves ask, having given `l` back to its caller.
Leaves(t, l) ==
    /\ calls' = [calls EXCEPT ![t] = [Idle EXCEPT !.asks = calls[t].asks]]
    /\ last' = l

\* Thread t enters ask(question).
AskBegins(t, question) ==
    /\ live
    /\ calls[t].pc = "idle"
    /\ calls[t].asks < MaxAsks
    /\ calls' = [calls EXCEPT ![t] =
                    [Idle EXCEPT !.pc = "encode",
                                 !.asks = calls[t].asks + 1,
                                 !.l = [NoLast EXCEPT
                                          !.op = "ask",
                                          !.question = question]]]
    /\ UNCHANGED <<live, cache, index, file, io_failures, last, prediction>>

\* embedding = self.encoder.encode([question])
AskEncodes(t) ==
    /\ calls[t].pc = "encode"
    /\ \E enc \in EncoderOutcomes :
          LET e == encode(calls[t].l.question, enc)
              l0 == [calls[t].l EXCEPT !.enc = enc, !.encodes = 1]
          IN  IF e.raised
              THEN Leaves(t, [l0 EXCEPT !.outcome = "raised",
                                        !.cause = "encoder"])
              ELSE /\ calls' = [calls EXCEPT ![t].pc = "search",
                                             ![t].l = l0,
                                             ![t].embedding = e.embedding]
                   /\ last' = last
    /\ UNCHANGED <<live, cache, index, file, io_failures, prediction>>

\* D, I = self.index.search(embedding, 1) and the test of the hit.
AskSearches(t) ==
    /\ calls[t].pc = "search"
    /\ LET c == calls[t]
       IN  IF dimension_mismatch(c.embedding)
           THEN Leaves(t, [c.l EXCEPT !.searches = 1, !.outcome = "raised",
                                      !.cause = "search"])
           ELSE \E r \in index_search(index, c.embedding) :
                   /\ calls' = [calls EXCEPT
                         ![t].pc = IF is_hit(r) THEN "row" ELSE "generate",
                         ![t].l = [c.l EXCEPT
                                     !.searches = 1, !.I = r.I, !.D = r.D,
                                     !.path = IF is_hit(r) THEN "hit"
                                              ELSE "miss"]]
                   /\ last' = last
    /\ UNCHANGED <<live, cache, index, file, io_failures, prediction>>

\* AskReadsRow under a lock that a thread keeps while it is inside a
\* provider call: the row is read only when no other thread is there.
AskReadsRowLocked(t) ==
    /\ calls[t].pc = "row"
    /\ \A u \in Callers \ {t} :
          calls[u].pc \notin {"encode", "generate", "requests.post"}
    /\ LET c == calls[t]
           r == [I |-> c.l.I, D |-> c.l.D]
       IN  IF r.I + 1 > Len(cache.response_text)
           THEN Leaves(t, [c.l EXCEPT !.outcome = "raised", !.cause = "row"])
           ELSE Leaves(t, [c.l EXCEPT !.outcome = "returned",
                                      !.result = cached_response(cache, r)])
    /\ UNCHANGED <<live, cache, index, file, io_failures, prediction>>

\* return self.cache['response_text'][row_id]
AskReadsRow(t) ==
    /\ calls[t].pc = "row"
    /\ LET c == calls[t]
           r == [I |-> c.l.I, D |-> c.l.D]
       IN  IF r.I + 1 > Len(cache.response_text)
           THEN Leaves(t, [c.l EXCEPT !.outcome = "raised", !.cause = "row"])
           ELSE Leaves(t, [c.l EXCEPT !.outcome = "returned",
                                      !.result = cached_response(cache, r)])
    /\ UNCHANGED <<live, cache, index, file, io_failures, prediction>>

\* answer, response_text = self.generate_answer(question)
AskGenerates(t) ==
    /\ calls[t].pc = "generate"
    /\ \E api_key \in BOOLEAN : \E http \in HttpOutcomesWith(api_key) :
          LET c == calls[t]
              g == generate_answer(c.l.question, api_key, http)
              l2 == [c.l EXCEPT !.generates = 1,
                                !.provider = ProviderFault(api_key, http),
                                !.requests = g.requests, !.query = g.data]
          IN  IF g.raised
              THEN Leaves(t, [l2 EXCEPT !.outcome = "raised",
                                        !.cause = "generate_answer"])
              ELSE /\ calls' = [calls EXCEPT
                                  ![t].pc = "questions",
                                  ![t].l = l2,
                                  ![t].answer = g.answer,
                                  ![t].response_text = g.response_text]
                   /\ last' = last
    /\ UNCHANGED <<live, cache, index, file, io_failures, prediction>>

\* requests.post(url, json=payload, headers=headers) is given no timeout:
\* when the server takes the request and sends nothing back, the call
\* stays inside requests.post. No statement of ask or make_prediction
\* takes the thread out of it.
AskWaitsForever(t) ==
    /\ calls[t].pc = "generate"
    /\ calls' = [calls EXCEPT
                   ![t].pc = "requests.post",
                   ![t].l = [calls[t].l EXCEPT !.generates = 1,
                                               !.provider = "no response",
                                               !.requests = 1,
                                               !.query =
                                                  <<calls[t].l.question>>]]
    /\ UNCHANGED <<live, cache, index, file, io_failures, last, prediction>>

\* The lists of the store in the order ask appends to them.
CommitOrder == <<"questions", "embeddings", "answers", "response_text">>

\* One of the four appends: self.cache[key].append(...), key = calls[t].pc.
AskAppends(t) ==
    LET c == calls[t]
        value == CASE c.pc = "questions" -> c.l.question
                   [] c.pc = "embeddings" -> c.embedding
                   [] c.pc = "answers" -> c.answer
                   [] OTHER -> c.response_text
        k == CHOOSE i \in 1..4 : CommitOrder[i] = c.pc
    IN  /\ c.pc \in {CommitOrder[i] : i \in 1..4}
        /\ c.pc = "questions" => Len(cache.questions) < MaxEntries
        /\ cache' = [cache EXCEPT ![c.pc] = Append(@, value)]
        /\ calls' = [calls EXCEPT
                       ![t].pc = IF k < 4 THEN CommitOrder[k + 1]
                                 ELSE "index.add"]
        /\ UNCHANGED <<live, index, file, io_failures, last, prediction>>

\* self.index.add(embedding)
AskAddsToIndex(t) ==
    /\ calls[t].pc = "index.add"
    /\ index' = index_add(index, calls[t].embedding)
    /\ calls' = [calls EXCEPT ![t].pc = "save_cache"]
    /\ UNCHANGED <<live, cache, file, io_failures, last, prediction>>

\* self.save_cache() and return response_text
AskSaves(t) ==
    /\ calls[t].pc = "save_cache"
    /\ \E io \in IoNow :
          LET c == calls[t]
              s == save_cache(cache, file, io)
          IN  /\ file' = s.file
              /\ io_failures' = Failures(s)
              /\ Leaves(t, [c.l EXCEPT
                              !.outcome = IF s.raised THEN "raised"
                                          ELSE "returned",
                              !.cause = IF s.raised THEN "save_cache"
                                        ELSE "none",
                              !.result = IF s.raised THEN ""
                                         ELSE c.response_text,
                              !.saves = 1])
    /\ UNCHANGED <<live, cache, index, prediction>>

\* Before the first start: no instance, no file.
Init ==
    /\ live = FALSE
    /\ cache = EmptyCache
    /\ index = IndexFlatL2
    /\ file = NoFile
    /\ io_failures = 0
    /\ last = NoLast
    /\ calls = [t \in Callers |-> Idle]
    /\ prediction = NoPrediction

Next ==
    \/ \E clear_on_init \in BOOLEAN : Construct(clear_on_init)
    \/ ClearCache
    \/ \E question \in Questions : Ask(question)

Spec == Init /\ [][Next]_vars

\* The operations, with commits that stop part-way and with crashes.
NextFaults ==
    \/ Next
    \/ \E question \in Questions : AskInterrupted(question)
    \/ CrashInSave

SpecFaults == Init /\ [][NextFaults]_vars

\* The instance after SemanticCaching(clear_on_init=True) and ask("Q1"),
\* answered with "t1": the store, the index, the file and the record of
\* that ask.
Warm ==
    LET answer == [json |-> TRUE, response_text |-> "t1"]
        m == commit(EmptyCache, IndexFlatL2, "Q1", EmbeddingOf("Q1"),
                    answer, "t1")
        r == CHOOSE r \in index_search(IndexFlatL2, EmbeddingOf("Q1")) : TRUE
    IN  [cache |-> m.cache,
         index |-> m.index,
         file |-> save_cache(m.cache, NoFile, "ok").file,
         last |-> [NoLast EXCEPT
                     !.op = "ask", !.question = "Q1", !.enc = "ok",
                     !.encodes = 1, !.searches = 1, !.I = r.I, !.D = r.D,
                     !.path = "miss", !.generates = 1,
                     !.provider = "answered", !.requests = 1,
                     !.query = <<"Q1">>, !.outcome = "returned",
                     !.result = "t1", !.saves = 1]]

\* The instance that threads are about to share: a new one,
\* SemanticCaching(clear_on_init=True), or one that has answered a
\* question already.
InitThreads ==
    /\ live = TRUE
    /\ \E warm \in BOOLEAN :
          IF warm
          THEN /\ cache = Warm.cache
               /\ index = Warm.index
               /\ file = Warm.file
               /\ last = Warm.last
          ELSE /\ cache = EmptyCache
               /\ index = IndexFlatL2
               /\ file = save_cache(EmptyCache, NoFile, "ok").file
               /\ last = [NoLast EXCEPT
                            !.op = "init", !.clear_on_init = TRUE,
                            !.outcome = "returned", !.saves = 1]
    /\ io_failures = 0
    /\ calls = [t \in Callers |-> Idle]
    /\ prediction = NoPrediction

\* The steps of thread t.
AskStep(t) ==
    \/ \E question \in Questions : AskBegins(t, question)
    \/ AskEncodes(t)
    \/ AskSearches(t)
    \/ AskReadsRow(t)
    \/ AskGenerates(t)
    \/ AskWaitsForever(t)
    \/ AskAppends(t)
    \/ AskAddsToIndex(t)
    \/ AskSaves(t)

NextThreads == \E t \in Callers : AskStep(t)

SpecThreads == InitThreads /\ [][NextThreads]_vars

\* Thread t enters clear_cache() and runs its first statement,
\*   self.cache = {'questions': [], 'embeddings': [], 'answers': [],
\*                 'response_text': []}
ClearBegins(t) ==
    /\ live
    /\ calls[t].pc = "idle"
    /\ calls[t].asks < MaxAsks
    /\ cache' = EmptyCache
    /\ calls' = [calls EXCEPT ![t] =
                    [Idle EXCEPT !.pc = "self.index",
                                 !.asks = calls[t].asks + 1,
                                 !.l = [NoLast EXCEPT !.op = "clear"]]]
    /\ UNCHANGED <<live, index, file, io_failures, last, prediction>>

\* self.index = faiss.IndexFlatL2(768)
ClearResetsIndex(t) ==
    /\ calls[t].pc = "self.index"
    /\ index' = IndexFlatL2
    /\ calls' = [calls EXCEPT ![t].pc = "clear.save_cache"]
    /\ UNCHANGED <<live, cache, file, io_failures, last, prediction>>

\* self.save_cache() of clear_cache, and its return.
ClearSaves(t) ==
    /\ calls[t].pc = "clear.save_cache"
    /\ \E io \in IoNow :
          LET c == calls[t]
              s == save_cache(cache, file, io)
          IN  /\ file' = s.file
              /\ io_failures' = Failures(s)
              /\ Leaves(t, [c.l EXCEPT
                              !.outcome = IF s.raised THEN "raised"
                                          ELSE "returned",
                              !.cause = IF s.raised THEN "save_cache"
                                        ELSE "none",
                              !.saves = 1])
    /\ UNCHANGED <<live, cache, index, prediction>>

\* The statements of clear_cache, as one thread runs them.
ClearStep(t) ==
    \/ ClearBegins(t)
    \/ ClearResetsIndex(t)
    \/ ClearSaves(t)

\* One instance shared by threads that call ask and clear_cache.
NextClearing == \E t \in Callers : AskStep(t) \/ ClearStep(t)

SpecClearing == InitThreads /\ [][NextClearing]_vars

\* A cell about to call make_prediction, as the notebook does with
\* make_prediction(['Events happening in London this week. ']): the
\* argument, the credential and what the request will meet are drawn here.
InitPrediction ==
    /\ live = FALSE
    /\ cache = EmptyCache
    /\ index = IndexFlatL2
    /\ file = NoFile
    /\ io_failures = 0
    /\ last = NoLast
    /\ calls = [t \in Callers |-> Idle]
    /\ prediction \in {[NoPrediction EXCEPT !.data = <<q>>, !.api_key = k,
                                            !.http = h] :
                          q \in Questions, k \in BOOLEAN,
                          h \in HttpResponses}

\* response = make_prediction(data)
MakePrediction ==
    /\ ~prediction.called
    /\ LET r == make_prediction(prediction.data, prediction.api_key,
                                prediction.http)
       IN  prediction' = [prediction EXCEPT !.called = TRUE,
                                            !.raised = r.raised,
                                            !.value = r.value,
                                            !.requests = r.requests]
    /\ UNCHANGED <<live, cache, index, file, io_failures, last, calls>>

NextPrediction == MakePrediction

SpecPrediction == InitPrediction /\ [][NextPrediction]_vars

\* --------------------------------------------------- what the caller gets

\* RuntimeError(f"Error during '<method>' method: {e}"): the class of the
\* exception and the parts of its message, those of e last.
RuntimeError(method, e) ==
    [type |-> "RuntimeError",
     message |-> <<"Error during '", method, "' method: ">> \o e.message]

\* The exception that reached the except clause of ask in the call l
\* describes. The texts in <> are the library's or the system's own.
Caught(l) ==
    CASE l.cause = "encoder" ->
            [type |-> "Exception", message |-> <<"<the encoder's text>">>]
      [] l.cause = "search" ->
            [type |-> "AssertionError", message |-> <<>>]
      [] l.cause = "row" ->
            [type |-> "IndexError",
             message |-> <<"list index out of range">>]
      [] l.cause = "save_cache" ->
            [type |-> "OSError", message |-> <<"<the system's text>">>]
      [] l.cause = "commit" ->
            [type |-> "MemoryError", message |-> <<>>]
      [] OTHER ->
            RuntimeError("generate_answer",
               CASE l.provider = "missing credential" ->
                       [type |-> "RuntimeError",
                        message |->
                           <<"Missing ARES_API_KEY in Colab userdata">>]
                 [] l.provider = "missing payload" ->
                       [type |-> "KeyError",
                        message |-> <<"'response_text'">>]
                 [] OTHER ->
                       [type |-> "TypeError",
                        message |->
                           <<"'NoneType' object is not subscriptable">>])

\* What a caller of ask catches when the call l describes raised:
\* raise RuntimeError(f"Error during 'ask' method: {e}").
ErrorOf(l) == RuntimeError("ask", Caught(l))

\* ------------------------------------------------------------ properties

\* The last operation was an ask whose encoder gave a vector of the
\* index's dimensionality, so that the search ran.
Embedded(l) == l.op = "ask" /\ l.enc = "ok"

\* The squared distance from a question's embedding to a vector.
Dist(question, v) == L2sqr(EmbeddingOf(question), v)

\* Position p holds a stored entry: an entry of the store whose embedding
\* is the vector the index holds at p.
StoredAt(p) ==
    /\ p \in 1..Len(cache.embeddings)
    /\ p <= Len(index)
    /\ index[p] = cache.embeddings[p]

\* The last ask missed, committed and returned.
MissReturned(l) ==
    l.op = "ask" /\ l.path = "miss" /\ l.outcome = "returned"

\* C1: whenever an instance exists, after any completed operation, the
\* index holds as many vectors as the store holds entries.
C1_IndexSizeEqualsStoreSize ==
    live => Len(index) = Len(cache.questions)

\* C2: whenever an instance exists, the index holds at every position of
\* the store the embedding stored there, also right after a load.
C2_IndexHoldsStoreEmbeddings ==
    live => \A p \in 1..Len(cache.embeddings) :
                p <= Len(index) /\ index[p] = cache.embeddings[p]

C4_MissThenHit ==
    [][(MissReturned(last) /\ Embedded(last')
        /\ last'.question = last.question)
       => /\ last'.path = "hit"
          /\ last'.outcome = "returned"
          /\ last'.result = last.result
          /\ last'.generates = 0
          /\ cache' = cache]_vars

\* C5: right after a restart that loaded the durable store, an ask of a
\* question the store holds is a hit that returns the text stored for it
\* and calls no AnswerProvider.
C5_HitAfterRestart ==
    [][(last.op = "init" /\ ~last.clear_on_init /\ last.outcome = "returned"
        /\ Embedded(last'))
       => \A p \in 1..Len(cache.questions) :
             cache.questions[p] = last'.question
             => /\ last'.path = "hit"
                /\ last'.outcome = "returned"
                /\ last'.result = cache.response_text[p]
                /\ last'.generates = 0]_vars

\* C6: after a successful miss, loading the durable file gives the entry
\* sequence the store holds: the same questions, embeddings, answers and
\* response_text, in the same order.
C6_LoadReproducesStore ==
    MissReturned(last) => load_cache(file) = [raised |-> FALSE, cache |-> cache]

\* A successful miss that left two different entries in the store.
C6_Witness ==
    /\ MissReturned(last)
    /\ Len(cache.questions) = 2
    /\ cache.questions[1] # cache.questions[2]
    /\ cache.response_text[1] # cache.response_text[2]
    /\ file.closed

\* C7: an ask whose search ran takes the hit path exactly when the index
\* holds a vector and the least squared distance from the question's
\* embedding to its vectors is at most the threshold; otherwise the miss
\* path.
C7_HitIffWithinThreshold ==
    [][Embedded(last') =>
        /\ last'.path \in {"hit", "miss"}
        /\ last'.path = "hit"
           <=> /\ Len(index) > 0
               /\ \E p \in 1..Len(index) :
                     /\ \A o \in 1..Len(index) :
                           Dist(last'.question, index[p])
                              <= Dist(last'.question, index[o])
                     /\ Dist(last'.question, index[p])
                           <= euclidean_threshold]_vars

\* A hit at a distance of exactly the threshold.
C7_Witness ==
    /\ Embedded(last) /\ last.path = "hit" /\ last.outcome = "returned"
    /\ last.D = euclidean_threshold
    /\ \A o \in 1..Len(index) :
          Dist(last.question, index[o]) >= euclidean_threshold

\* C8: a successful miss called the AnswerProvider once, with the question,
\* and appended one entry: the question, its embedding, the full answer and
\* the answer's response_text, which it returned; and an ask on an empty
\* cache takes the miss path.
C8_MissAppendsOneEntry ==
    [][/\ MissReturned(last') =>
            LET n == Len(cache.questions)
            IN  /\ last'.generates = 1
                /\ last'.requests = 1
                /\ last'.query = <<last'.question>>
                /\ last'.result \in Texts
                /\ cache'.questions = Append(cache.questions, last'.question)
                /\ cache'.embeddings
                      = Append(cache.embeddings, EmbeddingOf(last'.question))
                /\ cache'.answers
                      = Append(cache.answers,
                               [json |-> TRUE,
                                response_text |-> last'.result])
                /\ cache'.response_text
                      = Append(cache.response_text, last'.result)
                /\ Len(cache'.questions) = n + 1
       /\ (Embedded(last') /\ Len(cache.questions) = 0)
            => last'.path = "miss"]_vars

\* A successful miss on a cache that held an entry already.
C8_Witness ==
    /\ MissReturned(last)
    /\ Len(cache.questions) = 2
    /\ cache.response_text[2] = last.result

\* C9: an ask whose call to the AnswerProvider failed raises, and leaves
\* the store, the index and the durable file as they were, without a write.
C9_GenerationFailureChangesNothing ==
    [][(last'.op = "ask" /\ last'.provider \notin {"uncalled", "answered"})
       => /\ last'.outcome = "raised"
          /\ cache' = cache
          /\ index' = index
          /\ file' = file
          /\ last'.saves = 0]_vars

\* An ask on a cache holding an entry that raised on a non-success status.
C9_Witness ==
    /\ last.op = "ask" /\ last.provider = "non-success status"
    /\ last.outcome = "raised"
    /\ Len(cache.questions) > 0 /\ Len(index) > 0 /\ file.closed

\* C10: an ask whose encoder failed raises, has changed neither the store,
\* the index nor the durable file, and called no AnswerProvider.
C10_EmbeddingFailureChangesNothing ==
    [][(last'.op = "ask" /\ last'.enc = "raise")
       => /\ last'.outcome = "raised"
          /\ cache' = cache
          /\ index' = index
          /\ file' = file
          /\ last'.generates = 0
          /\ last'.requests = 0
          /\ last'.saves = 0]_vars

\* An ask on a cache holding an entry whose encoder raised.
C10_Witness ==
    /\ last.op = "ask" /\ last.enc = "raise" /\ last.outcome = "raised"
    /\ Len(cache.questions) > 0 /\ Len(index) > 0 /\ file.closed

\* s is a leading part of t.
IsPrefix(s, t) == Len(s) <= Len(t) /\ SubSeq(t, 1, Len(s)) = s

\* C14: an ask, however it ends, leaves each of the store's four lists
\* with what it held, in place and unchanged, before whatever it appended:
\* only clear_cache, or a new instance, takes an entry away.
C14_AskOnlyAppends ==
    [][last'.op = "ask" =>
        /\ IsPrefix(cache.questions, cache'.questions)
        /\ IsPrefix(cache.embeddings, cache'.embeddings)
        /\ IsPrefix(cache.answers, cache'.answers)
        /\ IsPrefix(cache.response_text, cache'.response_text)]_vars

\* A successful miss for another question than the one stored first.
C14_Witness ==
    /\ MissReturned(last)
    /\ Len(cache.questions) = 2
    /\ cache.questions[1] # last.question
    /\ cache.questions[2] = last.question

\* C15: an ask that is a hit leaves the store, the index and the durable
\* file as they were, calls the encoder once and the search once, and calls
\* neither the AnswerProvider nor save_cache.
C15_HitChangesNothing ==
    [][(last'.op = "ask" /\ last'.path = "hit")
       => /\ cache' = cache
          /\ index' = index
          /\ file' = file
          /\ last'.outcome = "returned"
          /\ last'.encodes = 1
          /\ last'.searches = 1
          /\ last'.generates = 0
          /\ last'.requests = 0
          /\ last'.saves = 0]_vars

\* A hit on another question than the stored one, the file holding the
\* store.
C15_Witness ==
    /\ last.op = "ask" /\ last.path = "hit" /\ last.outcome = "returned"
    /\ last.D > 0
    /\ Len(cache.questions) = 1
    /\ file = [exists |-> TRUE, closed |-> TRUE, text |-> dumps(cache)]

\* C16: a construction that loads, over no file, succeeds with a store of
\* no entries and an index of no vectors.
C16_MissingStoreIsEmpty ==
    (last.op = "init" /\ ~last.clear_on_init /\ ~file.exists)
    => /\ live
       /\ last.outcome = "returned"
       /\ cache = EmptyCache
       /\ index = IndexFlatL2

\* An instance constructed over no file.
C16_Witness ==
    /\ last.op = "init" /\ ~last.clear_on_init /\ ~file.exists
    /\ live /\ Len(cache.questions) = 0

\* C17: a construction that loads, over a file that does not parse, raises:
\* no instance results, no store is made up, and the file is as it was.
C17_CorruptStoreRefused ==
    [][(last'.op = "init" /\ ~last'.clear_on_init
        /\ file.exists /\ ~Parses(file))
       => /\ ~live'
          /\ last'.outcome = "raised"
          /\ last'.cause = "load_cache"
          /\ file' = file]_vars

\* A construction that raised in load_cache over a file cut short.
C17_Witness ==
    /\ last.op = "init" /\ ~last.clear_on_init
    /\ last.outcome = "raised" /\ last.cause = "load_cache"
    /\ file.exists /\ ~file.closed
    /\ ~live

\* The last operation was clear_cache, or a construction with
\* clear_on_init.
Cleared(l) == l.op = "clear" \/ (l.op = "init" /\ l.clear_on_init)

\* C19: clear_cache, and a construction with clear_on_init, that return
\* leave a store of no entries, an index of no vectors and a file holding
\* the empty structure; nothing of the file is loaded.
C19_ClearLeavesEmpty ==
    Cleared(last)
    => /\ cache = EmptyCache
       /\ index = IndexFlatL2
       /\ last.outcome = "returned"
          => /\ file = [exists |-> TRUE, closed |-> TRUE,
                        text |-> dumps(EmptyCache)]
             /\ load_cache(file) = [raised |-> FALSE, cache |-> EmptyCache]

\* A construction with clear_on_init that returned, after a failure of the
\* file system in an earlier operation.
C19_Witness ==
    /\ last.op = "init" /\ last.clear_on_init /\ last.outcome = "returned"
    /\ io_failures = 1
    /\ live /\ file.closed

\* The last ask committed its miss and raised in save_cache.
SaveFailed(l) ==
    l.op = "ask" /\ l.path = "miss" /\ l.cause = "save_cache"

\* C20: an ask whose save_cache fails raises, with the new entry in the
\* store and its vector in the index; the same question asked next on the
\* instance is a hit that calls no AnswerProvider.
C20_SaveFailureKeepsMemory ==
    [][/\ SaveFailed(last')
          => /\ last'.outcome = "raised"
             /\ Len(cache'.questions) = Len(cache.questions) + 1
             /\ Len(index') = Len(index) + 1
             /\ cache'.questions[Len(cache'.questions)] = last'.question
             /\ cache'.embeddings[Len(cache'.embeddings)]
                   = index'[Len(index')]
       /\ (SaveFailed(last) /\ Embedded(last')
           /\ last'.question = last.question)
          => /\ last'.path = "hit"
             /\ last'.outcome = "returned"
             /\ last'.generates = 0
             /\ last'.requests = 0]_vars

\* A hit for a question the store holds and the file does not, after a
\* failure of the file system.
C20_Witness ==
    /\ last.op = "ask" /\ last.path = "hit" /\ last.outcome = "returned"
    /\ last.D = 0
    /\ io_failures = 1
    /\ \E p \in 1..Len(cache.questions) : cache.questions[p] = last.question
    /\ \/ ~Parses(file)
       \/ \A p \in 1..Len(loads(file.text).questions) :
             loads(file.text).questions[p] # last.question

\* The four lists of a store have one length.
Aligned(c) ==
    /\ Len(c.questions) = Len(c.embeddings)
    /\ Len(c.questions) = Len(c.answers)
    /\ Len(c.questions) = Len(c.response_text)

\* C11: whatever step of the commit of a miss fails, an ask leaves either
\* one new entry in each of the store's four lists and one new vector in
\* the index, or the store and the index as they were.
C11_CommitAllOrNothing ==
    [][last'.op = "ask" =>
        \/ cache' = cache /\ index' = index
        \/ /\ Len(cache'.questions) = Len(cache.questions) + 1
           /\ Len(cache'.embeddings) = Len(cache.embeddings) + 1
           /\ Len(cache'.answers) = Len(cache.answers) + 1
           /\ Len(cache'.response_text) = Len(cache.response_text) + 1
           /\ Len(index') = Len(index) + 1]_vars

\* C18: a construction that loads, over a file that parses to four lists
\* of unequal length, raises and gives no instance.
C18_UnequalStoreRejected ==
    (/\ last.op = "init" /\ ~last.clear_on_init
     /\ Parses(file) /\ ~Aligned(loads(file.text)))
    => ~live /\ last.outcome = "raised"

\* No thread is inside ask.
Quiescent == \A t \in Callers : calls[t].pc = "idle"

\* C12: of two asks under way at once for one question, or for questions
\* within the threshold of each other, at most one commits an entry: no two
\* rows of the store hold questions that near to each other once the calls
\* are over.
C12_OneCommitForNearQuestions ==
    Quiescent =>
       \A p \in 1..Len(cache.questions) : \A q \in 1..Len(cache.questions) :
          p # q =>
             Dist(cache.questions[p], EmbeddingOf(cache.questions[q]))
                > euclidean_threshold

\* C13: however the steps of two missing asks fall, each call's vector
\* stands in the index where that call's entry stands in the store: once
\* the calls are over, the vector at a position of the index is the
\* embedding of the question at that position of the store.
C13_PairingNeverSwapped ==
    Quiescent =>
       \A p \in 1..Len(index) :
          /\ p <= Len(cache.questions)
          /\ index[p] = EmbeddingOf(cache.questions[p])

\* A step of ask in which the encoder raised or gave a vector of another
\* length, or the AnswerProvider was called and did not answer with a
\* response_text, or the file system failed in save_cache.
AskFailure ==
    /\ last'.op = "ask"
    /\ \/ last'.enc \in {"raise", "short"}
       \/ last'.generates = 1 /\ last'.provider # "answered"
       \/ io_failures' > io_failures

\* C21 as stated: an ask in which the embedding, the dimension check, the
\* generation or the save failed raises, returns no value and caches no
\* entry.
C21_FailureNeverCaches ==
    [][AskFailure =>
          /\ last'.outcome = "raised"
          /\ last'.result = ""
          /\ cache' = cache
          /\ index' = index]_vars

\* C21, amended: an ask in which one of these failed raises and returns
\* no value; it caches no entry and leaves the file alone unless the
\* failure is that of save_cache, which comes after the entry has gone
\* into the store and the index.
C21_FailureReachesCaller ==
    [][AskFailure =>
          /\ last'.outcome = "raised"
          /\ last'.result = ""
          /\ last'.cause \in {"encoder", "search", "generate_answer",
                              "save_cache"}
          /\ last'.cause # "save_cache"
                => cache' = cache /\ index' = index /\ file' = file
          /\ last'.cause = "save_cache"
                => /\ io_failures' > io_failures
                   /\ Len(cache'.questions) = Len(cache.questions) + 1
                   /\ Len(index') = Len(index) + 1]_vars

\* An ask that raised in save_cache, its entry in the store and its vector
\* in the index, the file cut short.
C21_Witness ==
    /\ SaveFailed(last) /\ last.outcome = "raised"
    /\ Len(cache.questions) = 1 /\ Len(index) = 1
    /\ cache.questions[1] = last.question
    /\ file.exists /\ ~file.closed

\* The call l describes was an ask that raised.
Reported(l) == l.op = "ask" /\ l.outcome = "raised"

\* The kinds of failure a caller is to tell apart.
CauseClass(l) ==
    CASE l.cause = "generate_answer" -> "AnswerProvider failure"
      [] l.cause \in {"encoder", "search"} -> "embedding failure"
      [] l.cause = "save_cache" -> "persistence failure"
      [] OTHER -> "corrupt store"

\* C22: the error ask reports identifies its cause: of two asks that fail
\* one after the other for causes of different kinds (an AnswerProvider
\* failure, an embedding failure, a persistence failure, a corrupt store),
\* the callers catch exceptions of different classes.
C22_ErrorClassIdentifiesCause ==
    [][(Reported(last) /\ Reported(last')
        /\ CauseClass(last) # CauseClass(last'))
       => ErrorOf(last).type # ErrorOf(last').type]_vars

\* C23: make_prediction raises exactly when there is no API key, and then
\* sends no request; with a key it sends one request and returns the
\* parsed body when the status is 200 and the body is JSON, and None when
\* the status is another one, the body is not JSON or the request raised.
C23_MakePredictionResult ==
    prediction.called =>
       LET http == prediction.http
       IN  /\ prediction.raised <=> ~prediction.api_key
           /\ ~prediction.api_key => prediction.requests = 0
           /\ prediction.api_key =>
                 /\ prediction.requests = 1
                 /\ prediction.value =
                       IF /\ http.kind = "response"
                          /\ http.status_code = 200
                          /\ http.body # NotJson
                       THEN http.body
                       ELSE None

\* A call that got status 201 with a JSON body and returned None.
C23_Witness ==
    /\ prediction.called /\ prediction.api_key
    /\ prediction.http.kind = "response"
    /\ prediction.http.status_code = 201
    /\ prediction.http.body \in Payloads
    /\ prediction.value = None /\ ~prediction.raised

\* Thread t is inside a call to the EmbeddingProvider or the
\* AnswerProvider.
InProvider(t) == calls[t].pc \in {"encode", "generate", "requests.post"}

\* C24: an ask that is inside a provider call goes on: the provider
\* answers or fails, or a timeout cuts the call off, so that the ask ends
\* with a text or with an error.
C24_ProviderCallEnds ==
    \A t \in Callers : InProvider(t) => ENABLED AskStep(t)

\* The file holding the whole document of store c.
WholeFile(c) == [exists |-> TRUE, closed |-> TRUE, text |-> dumps(c)]

\* C25: after a miss that returned, and after a clear_cache that returned,
\* the file is the whole document of the store in memory, and loads to it;
\* after a hit, and after an ask whose embedding or generation failed, the
\* file is what it was before the call.
C25_FileFollowsStore ==
    [][/\ (MissReturned(last')
           \/ (Cleared(last') /\ last'.outcome = "returned"))
          => /\ file' = WholeFile(cache')
             /\ load_cache(file').cache = cache'
       /\ (/\ last'.op = "ask"
           /\ \/ last'.path = "hit"
              \/ last'.cause \in {"encoder", "search", "generate_answer"})
          => file' = file]_vars

\* A miss that returned with a second entry, written over a file that an
\* earlier failure had cut short or left behind the store.
C25_Witness ==
    /\ MissReturned(last)
    /\ Len(cache.questions) = 2
    /\ io_failures = 1
    /\ file = WholeFile(cache)
    /\ Len(loads(file.text).response_text) = 2

C27_CrashLeavesWholeFile ==
    last.op = "crash" => file.exists /\ Parses(file)

\* C28: an ask whose embedding has another length than the index's
\* dimensionality raises before it has called the AnswerProvider or changed
\* the store, the index or the file; every vector of the index and every
\* embedding of the store has the index's dimensionality.
C28_WrongDimensionNeverStored ==
    [][/\ (last'.op = "ask" /\ last'.enc = "short")
          => /\ last'.outcome = "raised"
             /\ last'.cause = "search"
             /\ last'.generates = 0
             /\ last'.saves = 0
             /\ cache' = cache
             /\ index' = index
             /\ file' = file
       /\ \A p \in 1..Len(index') : Len(index'[p]) = IndexDim
       /\ \A p \in 1..Len(cache'.embeddings) :
             Len(cache'.embeddings[p]) = IndexDim]_vars

\* An ask with an embedding of another length, refused by the search of an
\* index that holds a vector.
C28_Witness ==
    /\ last.op = "ask" /\ last.enc = "short"
    /\ last.outcome = "raised" /\ last.cause = "search"
    /\ Len(index) = 1 /\ Len(cache.embeddings) = 1
    /\ Len(EmbeddingOf(last.question)) = IndexDim

\* C29: one ask calls the encoder once, generate_answer at most once and
\* the HTTP endpoint at most once; when the encoder failed it calls
\* generate_answer not at all, and when the AnswerProvider failed it raises
\* after that one call.
C29_OneCallPerProvider ==
    last.op = "ask" =>
       /\ last.encodes = 1
       /\ last.generates <= 1
       /\ last.requests <= last.generates
       /\ last.enc # "ok" => last.generates = 0 /\ last.outcome = "raised"
       /\ (last.generates = 1 /\ last.provider # "answered")
             => last.outcome = "raised" /\ last.cause = "generate_answer"

\* An ask whose one request to the AnswerProvider met a network failure.
C29_Witness ==
    /\ last.op = "ask" /\ last.enc = "ok"
    /\ last.provider = "network failure"
    /\ last.generates = 1 /\ last.requests = 1
    /\ last.outcome = "raised"

\* C30: a thread that is inside a provider call keeps nothing from the
\* others: while it is there, another thread can enter ask and can take
\* each step of the hit path (encode, search, read the row and return).
C30_ProviderCallHoldsNothing ==
    \A t \in Callers : \A u \in Callers \ {t} :
       InProvider(t) =>
          /\ (calls[u].pc = "idle" /\ calls[u].asks < MaxAsks)
                => ENABLED (\E question \in Questions :
                               AskBegins(u, question))
          /\ calls[u].pc = "encode" => ENABLED AskEncodes(u)
          /\ calls[u].pc = "search" => ENABLED AskSearches(u)
          /\ calls[u].pc = "row" => ENABLED AskReadsRow(u)

\* One thread inside requests.post for a question that missed, another
\* about to read the row of its hit on the cached question.
C30_Witness ==
    \E t \in Callers : \E u \in Callers \ {t} :
       /\ calls[t].pc = "requests.post"
       /\ calls[u].pc = "row"
       /\ calls[u].l.path = "hit"
       /\ calls[u].l.I + 1 <= Len(cache.response_text)
       /\ Len(cache.questions) = 1

\* C31: after any sequence of ask, clear_cache and restart, the text a hit
\* returns is the response_text of the store's row that holds the
\* embedding the search found nearest: the row read is a row of the store
\* and its embedding is the vector the index holds under that label.
C31_HitReadsRowOfNearest ==
    (last.op = "ask" /\ last.path = "hit" /\ last.outcome = "returned")
    => /\ StoredAt(last.I + 1)
       /\ last.result = cache.response_text[last.I + 1]

\* C32: with one caller, whatever the sequence of ask, clear_cache and
\* restart, any two rows of the store hold embeddings whose squared
\* distance is greater than the threshold; no question is stored twice.
C32_EntriesFarApart ==
    live =>
       \A p \in 1..Len(cache.embeddings) : \A q \in 1..Len(cache.embeddings) :
          p # q =>
             /\ L2sqr(cache.embeddings[p], cache.embeddings[q])
                   > euclidean_threshold
             /\ cache.questions[p] # cache.questions[q]

\* The index ix holds a vector within the threshold of the question's
\* embedding.
Known(ix, question) ==
    \E p \in 1..Len(ix) : Dist(question, ix[p]) <= euclidean_threshold

\* C33: once ask(Q) has returned on an instance, every later ask(Q) on it
\* whose encoder answers is a hit that calls no AnswerProvider, whatever
\* is asked in between, until clear_cache or a new instance. Step by step:
\* an ask(Q) that returns leaves a vector within the threshold of Q in the
\* index; every ask, of any question and with any outcome, keeps such a
\* vector; and with such a vector in the index ask(Q) is a hit that
\* returns, generates nothing and changes nothing.
C33_AnsweredStaysHit ==
    [][\A q \in Questions :
          /\ (last'.op = "ask" /\ last'.question = q
              /\ last'.outcome = "returned")
             => Known(index', q)
          /\ (Known(index, q) /\ last'.op = "ask") => Known(index', q)
          /\ (Known(index, q) /\ Embedded(last') /\ last'.question = q)
             => /\ last'.path = "hit"
                /\ last'.outcome = "returned"
                /\ last'.generates = 0
                /\ last'.requests = 0
                /\ cache' = cache
                /\ index' = index]_vars

\* Q1 was answered by a miss, Q4 was asked and stored after it, and Q1
\* asked again is a hit on its own vector.
C33_Witness ==
    /\ last.op = "ask" /\ last.question = "Q1"
    /\ last.path = "hit" /\ last.outcome = "returned"
    /\ last.generates = 0
    /\ last.I = 0 /\ last.D = 0
    /\ Len(index) = 2
    /\ index[2] = EmbeddingOf("Q4")
    /\ cache.questions = <<"Q1", "Q4">>

\* C34: in every state, the states between the statements of concurrent
\* ask and clear_cache calls included, every position the index search
\* can return is a position of response_text, and so is the position a
\* call that has searched is about to read.
C34_RowWithinStore ==
    /\ Len(index) <= Len(cache.response_text)
    /\ \A t \in Callers :
          calls[t].pc = "row" => calls[t].l.I + 1 <= Len(cache.response_text)

====
